---- MODULE Spec2Model ----
(***************************************************************************)
(* Model of three parts of the application:                                *)
(*   - the user/role management view (UserManagement),                     *)
(*   - the completed-service data access functions,                        *)
(*   - the mechanic form dialog (MechanicForm).                            *)
(* Every `await` on the backend client is two steps: the backend executes  *)
(* the request against the store (Server...), and later the handler's      *)
(* continuation runs on the UI event loop (After...).  Handlers started    *)
(* by separate clicks interleave freely between those steps.               *)
(***************************************************************************)
EXTENDS Integers, Sequences, FiniteSets, TLC

VARIABLES
    \* ---- user/role management view ----
    profiles,       \* remote table "profiles" (sequence of rows)
    user_roles,     \* remote table "user_roles" (sequence of rows)
    currentUser,    \* useAuth().user: a user id, or NoUser
    users,          \* component state: the displayed UserWithRole list
    loading,        \* component state
    hasAdmin,       \* component state
    handlers,       \* the running/finished async handlers of the view
    \* ---- completed-service access ----
    completed_services, \* remote table "completed_services"
    calls,              \* the running/finished calls of the two functions
    \* ---- mechanic form ----
    open,           \* prop `open`
    mechanic,       \* prop `mechanic` (NoMechanic in create mode)
    fields,         \* the form's field values
    defaultValues,  \* the form's default values, which reset() restores
    errors,         \* formState.errors.name message ("" when none)
    issued,         \* identifiers handed out so far by crypto.randomUUID
    onSubmitCalls,  \* the records passed to the onSubmit callback, in order
    closeRequested  \* onOpenChange(false) was called and the props have not changed since

userVars == <<profiles, user_roles, currentUser, users, loading, hasAdmin, handlers>>
serviceVars == <<completed_services, calls>>
formVars ==
    <<open, mechanic, fields, defaultValues, errors, issued, onSubmitCalls, closeRequested>>
vars == <<userVars, serviceVars, formVars>>

(***************************************************************************)
(* Bounds                                                                  *)
(***************************************************************************)
MaxHandlers == 2    \* clicks on bootstrap/promote/demote after the mount fetch
MaxCalls == 2       \* calls of getCompletedServices / addCompletedService
MaxSubmits == 2     \* accepted submits of the mechanic form

(***************************************************************************)
(* User/role management view                                               *)
(***************************************************************************)
NoUser == "no-user"
Profile(id) == [id |-> id, email |-> id, full_name |-> id, created_at |-> id]
RoleRow(uid, r) == [user_id |-> uid, role |-> r]

\* .eq('user_id', uid) on role rows: the rows of the user, in table order.
RECURSIVE SelectWhere(_, _)
SelectWhere(s, uid) ==
    IF s = <<>> THEN <<>>
    ELSE IF Head(s).user_id = uid
         THEN <<Head(s)>> \o SelectWhere(Tail(s), uid)
         ELSE SelectWhere(Tail(s), uid)

\* Array.prototype.find on the role rows: the first row of the user, if any.
FindRole(roles, uid) == SelectWhere(roles, uid)

\* Variant of RoleOrDefault that drops the role that was found.
RoleOrDefaultIgnoresRow(roles, uid) == "user"

\* roles.find(...)?.role || 'user'
RoleOrDefault(roles, uid) ==
    IF FindRole(roles, uid) = <<>> THEN "user" ELSE Head(FindRole(roles, uid)).role

\* profiles.map(profile => ({...profile fields, role}))
FormatUsers(ps, roles) ==
    [i \in 1..Len(ps) |->
        [id |-> ps[i].id, email |-> ps[i].email, full_name |-> ps[i].full_name,
         role |-> RoleOrDefault(roles, ps[i].id), created_at |-> ps[i].created_at]]

\* Variant of AdminExists that uses every() in place of some().
AdminExistsEvery(formattedUsers) ==
    \A i \in 1..Len(formattedUsers) : formattedUsers[i].role = "admin"

\* formattedUsers.some(user => user.role === 'admin')
AdminExists(formattedUsers) ==
    \E i \in 1..Len(formattedUsers) : formattedUsers[i].role = "admin"

\* Variant of UpdateRole with insert-or-update semantics.
UpdateRoleUpsert(roles, uid, r) ==
    IF \E i \in 1..Len(roles) : roles[i].user_id = uid
    THEN [i \in 1..Len(roles) |->
            IF roles[i].user_id = uid THEN [user_id |-> uid, role |-> r] ELSE roles[i]]
    ELSE Append(roles, [user_id |-> uid, role |-> r])

\* .update({ role }).eq('user_id', uid): every matching row is rewritten;
\* zero matching rows is not an error.
UpdateRole(roles, uid, r) ==
    [i \in 1..Len(roles) |->
        IF roles[i].user_id = uid THEN RoleRow(uid, r) ELSE roles[i]]

\* The store admits at most one role row per user_id: an insert for a user
\* that already has a row is refused.
InsertAllowed(roles, uid) == SelectWhere(roles, uid) = <<>>

IdleHandler ==
    [kind |-> "none", target |-> NoUser, pc |-> "idle", op |-> "none",
     existing |-> FALSE, err |-> "none", pdata |-> <<>>, rdata |-> <<>>,
     toast |-> "none", fetchErr |-> FALSE]

MountHandler == [IdleHandler EXCEPT !.kind = "mount", !.pc = "fp_sent"]

HandlerIds == 0..MaxHandlers
FreeSlot(h) ==
    /\ h \in 1..MaxHandlers
    /\ handlers[h].pc = "idle"
    /\ \A g \in 1..MaxHandlers : g < h => handlers[g].pc # "idle"

Rendered == ~loading
BootstrapOffered == Rendered /\ ~hasAdmin
PromoteOffered(i) == Rendered /\ i \in 1..Len(users) /\ users[i].role = "user"
DemoteOffered(i) ==
    /\ Rendered /\ i \in 1..Len(users)
    /\ users[i].role # "user"
    /\ users[i].id # currentUser

UsersUnchangedOthers == UNCHANGED <<serviceVars, formVars>>

\* onClick={promoteCurrentUserToAdmin}
ClickBootstrap(h) ==
    /\ BootstrapOffered
    /\ FreeSlot(h)
    /\ handlers' = [handlers EXCEPT ![h] =
          IF currentUser = NoUser
          THEN [IdleHandler EXCEPT !.kind = "bootstrap", !.pc = "done",
                                   !.toast = "error"]
          ELSE [IdleHandler EXCEPT !.kind = "bootstrap", !.target = currentUser,
                                   !.pc = "c_sent"]]
    /\ UNCHANGED <<profiles, user_roles, currentUser, users, loading, hasAdmin>>
    /\ UsersUnchangedOthers

\* onClick={() => promoteToAdmin(user.id)}
ClickPromote(h, i) ==
    /\ PromoteOffered(i)
    /\ FreeSlot(h)
    /\ handlers' = [handlers EXCEPT ![h] =
          [IdleHandler EXCEPT !.kind = "promote", !.target = users[i].id,
                              !.op = "update", !.pc = "w_sent"]]
    /\ UNCHANGED <<profiles, user_roles, currentUser, users, loading, hasAdmin>>
    /\ UsersUnchangedOthers

\* onClick={() => demoteToUser(user.id)}
ClickDemote(h, i) ==
    /\ DemoteOffered(i)
    /\ FreeSlot(h)
    /\ handlers' = [handlers EXCEPT ![h] =
          [IdleHandler EXCEPT !.kind = "demote", !.target = users[i].id,
                              !.op = "update", !.pc = "w_sent"]]
    /\ UNCHANGED <<profiles, user_roles, currentUser, users, loading, hasAdmin>>
    /\ UsersUnchangedOthers

\* The backend runs .select('*').eq('user_id', id).single(): exactly one row
\* gives the row, any other count gives error PGRST116 and no data.
ServerCheck(h) ==
    /\ handlers[h].pc = "c_sent"
    /\ \E fail \in BOOLEAN :
         handlers' = [handlers EXCEPT ![h] =
            IF fail
            THEN [@ EXCEPT !.pc = "c_resp", !.err = "other", !.existing = FALSE]
            ELSE IF Len(SelectWhere(user_roles, handlers[h].target)) = 1
                 THEN [@ EXCEPT !.pc = "c_resp", !.err = "none", !.existing = TRUE]
                 ELSE [@ EXCEPT !.pc = "c_resp", !.err = "PGRST116",
                                !.existing = FALSE]]
    /\ UNCHANGED <<profiles, user_roles, currentUser, users, loading, hasAdmin>>
    /\ UsersUnchangedOthers

\* The write the bootstrap action sends after its check.
BootstrapWrite(existingRole) == IF existingRole THEN "update" ELSE "insert"

\* if (checkError && checkError.code !== 'PGRST116') throw; then update or insert
AfterCheck(h) ==
    /\ handlers[h].pc = "c_resp"
    /\ handlers' = [handlers EXCEPT ![h] =
          IF handlers[h].err \notin {"none", "PGRST116"}
          THEN [@ EXCEPT !.pc = "done", !.toast = "error"]
          ELSE [@ EXCEPT !.pc = "w_sent", !.err = "none",
                         !.op = BootstrapWrite(handlers[h].existing)]]
    /\ UNCHANGED <<profiles, user_roles, currentUser, users, loading, hasAdmin>>
    /\ UsersUnchangedOthers

\* The role each action writes.
WrittenRole(kind) == IF kind = "demote" THEN "user" ELSE "admin"

\* The backend runs the update or the insert.
ServerWrite(h) ==
    /\ handlers[h].pc = "w_sent"
    /\ \E fail \in BOOLEAN :
        LET hd == handlers[h]
            r == WrittenRole(hd.kind)
        IN  IF fail
            THEN /\ handlers' = [handlers EXCEPT ![h].pc = "w_resp", ![h].err = "other"]
                 /\ UNCHANGED user_roles
            ELSE IF hd.op = "update"
            THEN /\ user_roles' = UpdateRole(user_roles, hd.target, r)
                 /\ handlers' = [handlers EXCEPT ![h].pc = "w_resp", ![h].err = "none"]
            ELSE IF InsertAllowed(user_roles, hd.target)
            THEN /\ user_roles' = Append(user_roles, RoleRow(hd.target, r))
                 /\ handlers' = [handlers EXCEPT ![h].pc = "w_resp", ![h].err = "none"]
            ELSE /\ handlers' = [handlers EXCEPT ![h].pc = "w_resp", ![h].err = "23505"]
                 /\ UNCHANGED user_roles
    /\ UNCHANGED <<profiles, currentUser, users, loading, hasAdmin>>
    /\ UsersUnchangedOthers

\* Variant of WriteThrows that never looks at the error.
WriteNeverThrows(err) == FALSE

\* if (error) throw error
WriteThrows(err) == err # "none"

\* if (error) throw error; toast success; fetchUsers()   |   catch: toast error
AfterWrite(h) ==
    /\ handlers[h].pc = "w_resp"
    /\ handlers' = [handlers EXCEPT ![h] =
          IF WriteThrows(handlers[h].err)
          THEN [@ EXCEPT !.pc = "done", !.toast = "error"]
          ELSE [@ EXCEPT !.pc = "fp_sent", !.toast = "success"]]
    /\ UNCHANGED <<profiles, user_roles, currentUser, users, loading, hasAdmin>>
    /\ UsersUnchangedOthers

\* fetchUsers: the backend runs the select on "profiles".
ServerProfiles(h) ==
    /\ handlers[h].pc = "fp_sent"
    /\ \E fail \in BOOLEAN :
         handlers' = [handlers EXCEPT ![h] =
            IF fail THEN [@ EXCEPT !.pc = "fp_resp", !.err = "other"]
            ELSE [@ EXCEPT !.pc = "fp_resp", !.err = "none", !.pdata = profiles]]
    /\ UNCHANGED <<profiles, user_roles, currentUser, users, loading, hasAdmin>>
    /\ UsersUnchangedOthers

\* fetchUsers: if (profileError) throw -> catch toast, finally setLoading(false);
\* otherwise the select on "user_roles" is sent.
AfterProfiles(h) ==
    /\ handlers[h].pc = "fp_resp"
    /\ IF handlers[h].err # "none"
       THEN /\ handlers' = [handlers EXCEPT ![h].pc = "done", ![h].fetchErr = TRUE]
            /\ loading' = FALSE
       ELSE /\ handlers' = [handlers EXCEPT ![h].pc = "fr_sent"]
            /\ UNCHANGED loading
    /\ UNCHANGED <<profiles, user_roles, currentUser, users, hasAdmin>>
    /\ UsersUnchangedOthers

\* fetchUsers: the backend runs the select on "user_roles".
ServerRoles(h) ==
    /\ handlers[h].pc = "fr_sent"
    /\ \E fail \in BOOLEAN :
         handlers' = [handlers EXCEPT ![h] =
            IF fail THEN [@ EXCEPT !.pc = "fr_resp", !.err = "other"]
            ELSE [@ EXCEPT !.pc = "fr_resp", !.err = "none", !.rdata = user_roles]]
    /\ UNCHANGED <<profiles, user_roles, currentUser, users, loading, hasAdmin>>
    /\ UsersUnchangedOthers

\* fetchUsers: join, setUsers, setHasAdmin, finally setLoading(false).
AfterRoles(h) ==
    /\ handlers[h].pc = "fr_resp"
    /\ IF handlers[h].err # "none"
       THEN /\ handlers' = [handlers EXCEPT ![h].pc = "done", ![h].fetchErr = TRUE]
            /\ UNCHANGED <<users, hasAdmin>>
       ELSE /\ handlers' = [handlers EXCEPT ![h].pc = "done"]
            /\ users' = FormatUsers(handlers[h].pdata, handlers[h].rdata)
            /\ hasAdmin' = AdminExists(users')
    /\ loading' = FALSE
    /\ UNCHANGED <<profiles, user_roles, currentUser>>
    /\ UsersUnchangedOthers

(***************************************************************************)
(* Completed-service access                                                *)
(***************************************************************************)
NullValue == "<null>"

\* The Omit<CompletedService, "id"> values passed to addCompletedService.
ServiceInputs ==
    { [mechanicId |-> "m1", serviceIds |-> <<"s1">>, totalAmount |-> 100,
       receivedAmount |-> 40, completionDate |-> "d1", createdAt |-> 2],
      [mechanicId |-> "", serviceIds |-> <<>>, totalAmount |-> 0,
       receivedAmount |-> 0, completionDate |-> "d2", createdAt |-> 1] }

\* A row written before this session whose mechanic reference is null.
LegacyRow ==
    [id |-> "legacy", mechanic_id |-> NullValue, service_ids |-> <<"s2">>,
     total_amount |-> 80, received_amount |-> 80, completion_date |-> "d0",
     created_at |-> 1, created_by |-> NullValue]

\* Variant of InsertRow that swaps the two amounts.
InsertRowSwapsAmounts(completedService, user, rowId) ==
    [id |-> rowId,
     mechanic_id |-> completedService.mechanicId,
     service_ids |-> completedService.serviceIds,
     total_amount |-> completedService.receivedAmount,
     received_amount |-> completedService.totalAmount,
     completion_date |-> completedService.completionDate,
     created_at |-> completedService.createdAt,
     created_by |-> user]

\* The row addCompletedService inserts; the store supplies the id.
InsertRow(completedService, user, rowId) ==
    [id |-> rowId,
     mechanic_id |-> completedService.mechanicId,
     service_ids |-> completedService.serviceIds,
     total_amount |-> completedService.totalAmount,
     received_amount |-> completedService.receivedAmount,
     completion_date |-> completedService.completionDate,
     created_at |-> completedService.createdAt,
     created_by |-> user]

\* item.mechanic_id || ""
OrEmpty(v) == IF v = NullValue \/ v = "" THEN "" ELSE v

\* Number(x) of a JSON number is the number.
NumberOf(x) == x

\* The view model of one row.
MapRow(item) ==
    [id |-> item.id,
     mechanicId |-> OrEmpty(item.mechanic_id),
     serviceIds |-> item.service_ids,
     totalAmount |-> NumberOf(item.total_amount),
     receivedAmount |-> NumberOf(item.received_amount),
     completionDate |-> item.completion_date,
     createdAt |-> item.created_at]

\* data.map(item => ...)
MapRows(data) == [k \in 1..Len(data) |-> MapRow(data[k])]

\* Insert row r into the sequence s, ordered by created_at descending, after
\* the rows with the same created_at.
RECURSIVE InsertDesc(_, _)
InsertDesc(s, r) ==
    IF s = <<>> THEN <<r>>
    ELSE IF Head(s).created_at >= r.created_at
         THEN <<Head(s)>> \o InsertDesc(Tail(s), r)
         ELSE <<r>> \o s

\* .order('created_at', { ascending: false })
RECURSIVE OrderByCreatedAtDesc(_)
OrderByCreatedAtDesc(rows) ==
    IF rows = <<>> THEN <<>>
    ELSE InsertDesc(OrderByCreatedAtDesc(SubSeq(rows, 1, Len(rows) - 1)),
                    rows[Len(rows)])

\* if (error) return []; return data.map(...)
ListResult(error, data) == IF error THEN <<>> ELSE MapRows(data)

\* Variant of Refetches that goes on to the list after a failed insert.
RefetchesAlways(error) == TRUE

\* addCompletedService: if (error) return []; return getCompletedServices()
Refetches(error) == ~error

CallIds == 1..MaxCalls
NoInput == [mechanicId |-> "", serviceIds |-> <<>>, totalAmount |-> 0,
            receivedAmount |-> 0, completionDate |-> "", createdAt |-> 0]
IdleCall ==
    [kind |-> "none", input |-> NoInput, pc |-> "idle", user |-> NullValue,
     insertErr |-> FALSE, selectErr |-> FALSE, selects |-> 0, data |-> <<>>,
     result |-> <<>>, outcome |-> "pending", after |-> {}]

FreeCall(c) ==
    /\ calls[c].pc = "idle"
    /\ \A d \in CallIds : d < c => calls[d].pc # "idle"

\* The add calls that had already returned after a successful insert.
CreatedSoFar ==
    {d \in CallIds : calls[d].kind = "add" /\ calls[d].pc = "done"
                     /\ ~calls[d].insertErr}

ServicesUnchangedOthers == UNCHANGED <<userVars, formVars>>

\* A caller invokes getCompletedServices(): the select is sent.
CallList(c) ==
    /\ FreeCall(c)
    /\ calls' = [calls EXCEPT ![c] =
          [IdleCall EXCEPT !.kind = "list", !.pc = "s_sent", !.selects = 1,
                           !.after = CreatedSoFar]]
    /\ UNCHANGED completed_services
    /\ ServicesUnchangedOthers

\* A caller invokes addCompletedService(input): auth.getUser() is awaited.
CallAdd(c, input) ==
    /\ FreeCall(c)
    /\ calls' = [calls EXCEPT ![c] =
          [IdleCall EXCEPT !.kind = "add", !.input = input, !.pc = "auth",
                           !.after = CreatedSoFar]]
    /\ UNCHANGED completed_services
    /\ ServicesUnchangedOthers

\* getUser() resolves with the signed-in user or with null; the insert is sent.
AfterGetUser(c) ==
    /\ calls[c].pc = "auth"
    /\ \E u \in {"u1", NullValue} :
          calls' = [calls EXCEPT ![c].user = u, ![c].pc = "i_sent"]
    /\ UNCHANGED completed_services
    /\ ServicesUnchangedOthers

\* The backend runs the insert: the row is appended, or nothing is written
\* and an error is returned.
ServerInsert(c) ==
    /\ calls[c].pc = "i_sent"
    /\ \E fail \in BOOLEAN :
          IF fail
          THEN /\ calls' = [calls EXCEPT ![c].pc = "i_resp", ![c].insertErr = TRUE]
               /\ UNCHANGED completed_services
          ELSE /\ calls' = [calls EXCEPT ![c].pc = "i_resp"]
               /\ completed_services' =
                    Append(completed_services,
                           InsertRow(calls[c].input, calls[c].user,
                                     Len(completed_services) + 1))
    /\ ServicesUnchangedOthers

\* if (error) { log; return [] }  return getCompletedServices()
AfterInsert(c) ==
    /\ calls[c].pc = "i_resp"
    /\ calls' = [calls EXCEPT ![c] =
          IF Refetches(calls[c].insertErr)
          THEN [@ EXCEPT !.pc = "s_sent", !.selects = @ + 1]
          ELSE [@ EXCEPT !.pc = "done", !.result = <<>>, !.outcome = "returned"]]
    /\ UNCHANGED completed_services
    /\ ServicesUnchangedOthers

\* The backend runs select('*').order('created_at', desc), or returns an error.
ServerSelect(c) ==
    /\ calls[c].pc = "s_sent"
    /\ \E fail \in BOOLEAN :
          calls' = [calls EXCEPT ![c] =
             IF fail THEN [@ EXCEPT !.pc = "s_resp", !.selectErr = TRUE]
             ELSE [@ EXCEPT !.pc = "s_resp",
                            !.data = OrderByCreatedAtDesc(completed_services)]]
    /\ UNCHANGED completed_services
    /\ ServicesUnchangedOthers

\* getCompletedServices returns [] on error and the mapped rows otherwise.
AfterSelect(c) ==
    /\ calls[c].pc = "s_resp"
    /\ calls' = [calls EXCEPT ![c].pc = "done", ![c].outcome = "returned",
                              ![c].result = ListResult(calls[c].selectErr,
                                                       calls[c].data)]
    /\ UNCHANGED completed_services
    /\ ServicesUnchangedOthers

InitServices ==
    /\ completed_services \in {<<>>, <<LegacyRow>>}
    /\ calls = [c \in CallIds |-> IdleCall]

NextServices ==
    \/ \E c \in CallIds : CallList(c)
    \/ \E c \in CallIds : \E input \in ServiceInputs : CallAdd(c, input)
    \/ \E c \in CallIds : AfterGetUser(c)
    \/ \E c \in CallIds : ServerInsert(c)
    \/ \E c \in CallIds : AfterInsert(c)
    \/ \E c \in CallIds : ServerSelect(c)
    \/ \E c \in CallIds : AfterSelect(c)

(***************************************************************************)
(* Mechanic form                                                           *)
(***************************************************************************)
Mech(id, name, specialization, phone) ==
    [id |-> id, name |-> name, specialization |-> specialization, phone |-> phone]

\* The `mechanic` prop when the caller passes none (create mode).
NoMechanic == Mech("<undefined>", "", "", "")
\* { id: "", name: "", specialization: "", phone: "" }
BlankFields == Mech("", "", "", "")

\* The mechanics that exist when the form is mounted.
ExistingMechanics == {Mech("m1", "Ana", "Motor", "555")}
ExistingIds == {m.id : m \in ExistingMechanics}
\* The identifiers crypto.randomUUID can return.
UUIDs == ExistingIds \cup {"g1", "g2", "g3"}

Names == {"", "Cris"}
Specializations == {"Motor"}
Phones == {"555"}
RequiredMessage == "Nome e obrigatorio"

\* const isEditing = !!mechanic
isEditing == mechanic # NoMechanic

\* Variant of RequiredOk without the `required` rule.
RequiredOkNoRule(name) == TRUE

\* register("name", { required: ... }): an empty value fails validation.
RequiredOk(name) == name # ""

\* Variant of SubmittedId that generates an identifier in both modes.
SubmittedIdAlwaysNew(editing, mechanicId, uuid) == uuid

\* if (!isEditing) data.id = crypto.randomUUID(); else data.id = mechanic.id
SubmittedId(editing, mechanicId, uuid) == IF ~editing THEN uuid ELSE mechanicId

FormUnchangedOthers == UNCHANGED <<userVars, serviceVars>>

\* The mechanics the caller can pass for editing: the existing ones and the
\* records the form has submitted.
KnownMechanics ==
    ExistingMechanics \cup {onSubmitCalls[k].data : k \in 1..Len(onSubmitCalls)}

\* The caller re-renders the form with new `open` / `mechanic` props; the
\* effect on [open, mechanic] then resets the form.
ParentSetsProps(o, m) ==
    /\ <<o, m>> # <<open, mechanic>>
    /\ open' = o
    /\ mechanic' = m
    /\ closeRequested' = FALSE
    /\ IF o /\ m # NoMechanic
       THEN fields' = m /\ defaultValues' = m /\ errors' = ""
       ELSE IF ~o
       THEN fields' = BlankFields /\ defaultValues' = BlankFields /\ errors' = ""
       ELSE UNCHANGED <<fields, defaultValues, errors>>
    /\ UNCHANGED <<issued, onSubmitCalls>>
    /\ FormUnchangedOthers

\* The user edits one of the three inputs.
TypeName(n) ==
    /\ open
    /\ fields.name # n
    /\ fields' = [fields EXCEPT !.name = n]
    /\ UNCHANGED <<open, mechanic, defaultValues, errors, issued, onSubmitCalls,
                   closeRequested>>
    /\ FormUnchangedOthers

TypeSpecialization(v) ==
    /\ open
    /\ fields.specialization # v
    /\ fields' = [fields EXCEPT !.specialization = v]
    /\ UNCHANGED <<open, mechanic, defaultValues, errors, issued, onSubmitCalls,
                   closeRequested>>
    /\ FormUnchangedOthers

TypePhone(v) ==
    /\ open
    /\ fields.phone # v
    /\ fields' = [fields EXCEPT !.phone = v]
    /\ UNCHANGED <<open, mechanic, defaultValues, errors, issued, onSubmitCalls,
                   closeRequested>>
    /\ FormUnchangedOthers

\* The Cancelar button: onOpenChange(false).
Cancel ==
    /\ open
    /\ ~closeRequested
    /\ closeRequested' = TRUE
    /\ UNCHANGED <<open, mechanic, fields, defaultValues, errors, issued,
                   onSubmitCalls>>
    /\ FormUnchangedOthers

\* handleSubmit(onSubmitForm): validation, then onSubmitForm on success.
Submit ==
    /\ open
    /\ IF ~RequiredOk(fields.name)
       THEN /\ errors' = RequiredMessage
            /\ UNCHANGED <<fields, issued, onSubmitCalls, closeRequested>>
       ELSE /\ Len(onSubmitCalls) < MaxSubmits
            /\ \E uuid \in IF isEditing THEN {""} ELSE UUIDs \ issued :
                 LET data == [fields EXCEPT
                                !.id = SubmittedId(isEditing, mechanic.id, uuid)]
                 IN  /\ onSubmitCalls' =
                          Append(onSubmitCalls,
                                 [data |-> data,
                                  mode |-> IF isEditing THEN "edit" ELSE "create",
                                  mechanicId |-> mechanic.id,
                                  before |-> {m.id : m \in KnownMechanics}])
                     /\ issued' = IF isEditing THEN issued ELSE issued \cup {uuid}
            /\ fields' = defaultValues
            /\ errors' = ""
            /\ closeRequested' = TRUE
    /\ UNCHANGED <<open, mechanic, defaultValues>>
    /\ FormUnchangedOthers

InitForm ==
    /\ open = FALSE
    /\ mechanic \in ExistingMechanics \cup {NoMechanic}
    /\ fields = BlankFields
    /\ defaultValues = BlankFields
    /\ errors = ""
    /\ issued = ExistingIds
    /\ onSubmitCalls = <<>>
    /\ closeRequested = FALSE

NextForm ==
    \/ \E o \in BOOLEAN : \E m \in KnownMechanics \cup {NoMechanic} :
          ParentSetsProps(o, m)
    \/ \E n \in Names : TypeName(n)
    \/ \E v \in Specializations : TypeSpecialization(v)
    \/ \E v \in Phones : TypePhone(v)
    \/ Cancel
    \/ Submit

Roles == {"admin", "user"}
\* The role tables the view can start from: at most one row per user.
InitialRoleTables ==
    {<<>>} \cup {<<RoleRow("u1", r)>> : r \in Roles}
           \cup {<<RoleRow("u2", r)>> : r \in Roles}
           \cup {<<RoleRow("u1", r), RoleRow("u2", q)>> : r \in Roles, q \in Roles}

InitUsers ==
    /\ profiles = <<Profile("u1"), Profile("u2")>>
    /\ user_roles \in InitialRoleTables
    /\ currentUser \in {"u1", NoUser}
    /\ users = <<>>
    /\ loading = TRUE
    /\ hasAdmin = FALSE
    /\ handlers = [h \in HandlerIds |-> IF h = 0 THEN MountHandler ELSE IdleHandler]

ServicesIdle ==
    /\ completed_services = <<>>
    /\ calls = <<>>

FormIdle ==
    /\ open = FALSE
    /\ mechanic = NoMechanic
    /\ fields = BlankFields
    /\ defaultValues = BlankFields
    /\ errors = ""
    /\ issued = {}
    /\ onSubmitCalls = <<>>
    /\ closeRequested = FALSE

UsersIdle ==
    /\ profiles = <<>>
    /\ user_roles = <<>>
    /\ currentUser = NoUser
    /\ users = <<>>
    /\ loading = TRUE
    /\ hasAdmin = FALSE
    /\ handlers = <<>>

NextUsers ==
    \/ \E h \in HandlerIds : ClickBootstrap(h)
    \/ \E h \in HandlerIds : \E i \in 1..Len(users) : ClickPromote(h, i)
    \/ \E h \in HandlerIds : \E i \in 1..Len(users) : ClickDemote(h, i)
    \/ \E h \in HandlerIds : ServerCheck(h)
    \/ \E h \in HandlerIds : AfterCheck(h)
    \/ \E h \in HandlerIds : ServerWrite(h)
    \/ \E h \in HandlerIds : AfterWrite(h)
    \/ \E h \in HandlerIds : ServerProfiles(h)
    \/ \E h \in HandlerIds : AfterProfiles(h)
    \/ \E h \in HandlerIds : ServerRoles(h)
    \/ \E h \in HandlerIds : AfterRoles(h)

\* Each specification runs one part of the application; the state of the
\* other parts stays at rest.
InitUsersOnly == InitUsers /\ ServicesIdle /\ FormIdle
InitFormOnly == InitForm /\ UsersIdle /\ ServicesIdle
InitServicesOnly == InitServices /\ UsersIdle /\ FormIdle

SpecUsers == InitUsersOnly /\ [][NextUsers]_vars

SpecForm == InitFormOnly /\ [][NextForm]_vars

SpecServices == InitServicesOnly /\ [][NextServices]_vars

(***************************************************************************)
(* Properties of the user/role management view                             *)
(***************************************************************************)
DisplayedAdmin == \E i \in 1..Len(users) : users[i].role = "admin"
RowsOf(uid) == SelectWhere(user_roles, uid)
DisplayedRole(uid) ==
    {users[i].role : i \in {k \in 1..Len(users) : users[k].id = uid}}

JoinPost(ps, rs, us, admin) ==
    /\ Len(us) = Len(ps)
    /\ \A i \in 1..Len(ps) :
          /\ us[i].id = ps[i].id
          /\ us[i].email = ps[i].email
          /\ \A k \in 1..Len(rs) : rs[k].user_id = ps[i].id => us[i].role = rs[k].role
          /\ (\A k \in 1..Len(rs) : rs[k].user_id # ps[i].id) => us[i].role = "user"
    /\ admin <=> \E i \in 1..Len(us) : us[i].role = "admin"

FetchSucceeds(h) ==
    /\ handlers[h].pc = "fr_resp"
    /\ handlers[h].err = "none"
    /\ handlers'[h].pc = "done"

\* C3: a successful fetchUsers displays one entry per profile row, with the
\* role of the user's role row, "user" when the user has no role row, and
\* hasAdmin true exactly when some entry is an admin.
C3_FetchJoin ==
    [][\A h \in HandlerIds :
          FetchSucceeds(h) =>
             JoinPost(handlers[h].pdata, handlers[h].rdata, users', hasAdmin')]_vars

\* C3 witness: the mount fetch succeeded on a table with a row for one user
\* and none for the other; the second is displayed as "user".
C3_Witness ==
    /\ handlers[0].pc = "done" /\ ~handlers[0].fetchErr
    /\ Len(handlers[0].rdata) = 1
    /\ Len(users) = Len(profiles)
    /\ \E i \in 1..Len(users) :
          /\ SelectWhere(handlers[0].rdata, users[i].id) = <<>>
          /\ users[i].role = "user"
    /\ DisplayedAdmin /\ hasAdmin

\* C4: after promoteToAdmin was performed twice on a user and both reported
\* success, the user's role is "admin".
C4_PromoteTwiceIsAdmin ==
    \A h1, h2 \in HandlerIds :
        ( /\ h1 < h2
          /\ handlers[h1].kind = "promote" /\ handlers[h2].kind = "promote"
          /\ handlers[h1].target = handlers[h2].target
          /\ handlers[h1].toast = "success" /\ handlers[h2].toast = "success" )
        => RoleOrDefault(user_roles, handlers[h1].target) = "admin"

\* C8: after a bootstrap action reported success the store holds exactly one
\* role row for the current user, and its role is "admin", whatever the
\* interleaving with other bootstrap, promote and demote actions.
C8_BootstrapOneAdminRow ==
    \A h \in HandlerIds :
        (handlers[h].kind = "bootstrap" /\ handlers[h].toast = "success")
        => /\ Len(RowsOf(handlers[h].target)) = 1
           /\ Head(RowsOf(handlers[h].target)).role = "admin"

\* C8 witness: two bootstrap actions both found no row and both sent an
\* insert; one reported success and the other was refused by the store.
C8_Witness ==
    \E h1, h2 \in HandlerIds :
        /\ h1 # h2
        /\ handlers[h1].kind = "bootstrap" /\ handlers[h2].kind = "bootstrap"
        /\ handlers[h1].op = "insert" /\ handlers[h2].op = "insert"
        /\ handlers[h1].toast = "success"
        /\ handlers[h2].toast = "error" /\ handlers[h2].err = "23505"

Quiescent ==
    /\ \A h \in HandlerIds :
          /\ handlers[h].pc \in {"idle", "done"}
          /\ handlers[h].toast # "error"
          /\ ~handlers[h].fetchErr
    /\ handlers[0].pc = "done"

\* C9: once every mutation and re-fetch has completed without an error, the
\* displayed list is the left join of the store's profiles and role rows and
\* hasAdmin says whether that join holds an admin.
C9_QuiescentDisplayIsJoin ==
    Quiescent =>
        /\ users = FormatUsers(profiles, user_roles)
        /\ hasAdmin = AdminExists(FormatUsers(profiles, user_roles))

IsRoleUpdate(h) == handlers[h].kind \in {"promote", "demote"}

\* C10: promoteToAdmin/demoteToUser on a user without a role row: the update
\* is accepted without error and leaves the role rows unchanged, the success
\* notification is shown and the re-fetch is started, and the re-fetch
\* displays the user, still without a role row, with role "user".
C10_UpdateWithoutRow ==
    [][\A h \in HandlerIds :
          (IsRoleUpdate(h) /\ RowsOf(handlers[h].target) = <<>>) =>
             /\ (handlers[h].pc = "w_sent" /\ handlers'[h].pc = "w_resp"
                   /\ handlers'[h].err = "none")
                  => user_roles' = user_roles
             /\ (handlers[h].pc = "w_resp" /\ handlers[h].err = "none"
                   /\ handlers'[h].pc # "w_resp")
                  => (handlers'[h].toast = "success" /\ handlers'[h].pc = "fp_sent")
             /\ FetchSucceeds(h)
                  => \A i \in 1..Len(users') :
                        users'[i].id = handlers[h].target => users'[i].role = "user"]_vars

\* C10 witness: a promote on a user without a role row reported success and
\* finished its re-fetch; the store still has no row for the user, who is
\* displayed with role "user".
C10_Witness ==
    \E h \in HandlerIds :
        /\ handlers[h].kind = "promote"
        /\ handlers[h].pc = "done" /\ handlers[h].toast = "success"
        /\ ~handlers[h].fetchErr
        /\ RowsOf(handlers[h].target) = <<>>
        /\ user_roles = handlers[0].rdata
        /\ DisplayedRole(handlers[h].target) = {"user"}


(***************************************************************************)
(* Properties of the completed-service access functions                    *)
(***************************************************************************)
\* The sequence holds a record with the six fields of the input.
ContainsInput(result, input) ==
    \E k \in 1..Len(result) :
        /\ result[k].mechanicId = input.mechanicId
        /\ result[k].serviceIds = input.serviceIds
        /\ result[k].totalAmount = input.totalAmount
        /\ result[k].receivedAmount = input.receivedAmount
        /\ result[k].completionDate = input.completionDate
        /\ result[k].createdAt = input.createdAt

\* Call c ran a list after the create of call a had succeeded: c is a's own
\* re-fetch, or a list that was started after a returned.
ListedAfterCreate(a, c) ==
    /\ calls[a].kind = "add" /\ ~calls[a].insertErr
    /\ calls[c].pc = "done"
    /\ \/ (c = a /\ calls[a].selects > 0)
       \/ (a \in calls[c].after /\ calls[c].kind = "list")

\* C1 as stated: whenever a create succeeded and is followed by a list, the
\* list's result holds the new record with the fields that were passed.
C1_CreateThenListContains ==
    \A a, c \in CallIds :
        ListedAfterCreate(a, c) => ContainsInput(calls[c].result, calls[a].input)

\* C1 amended: the same, for a list whose select did not fail.
C1_CreateThenSuccessfulListContains ==
    \A a, c \in CallIds :
        (ListedAfterCreate(a, c) /\ ~calls[c].selectErr)
        => ContainsInput(calls[c].result, calls[a].input)

\* C1 witness: a create succeeded and returned its re-fetched list, and a
\* later list call returned too; both hold the new record.
C1_Witness ==
    \E a, c \in CallIds :
        /\ a # c
        /\ ListedAfterCreate(a, a) /\ ListedAfterCreate(a, c)
        /\ ~calls[a].selectErr /\ ~calls[c].selectErr
        /\ calls[a].input.totalAmount # calls[a].input.receivedAmount
        /\ ContainsInput(calls[a].result, calls[a].input)
        /\ ContainsInput(calls[c].result, calls[a].input)

FailedSelect(c) == calls[c].pc = "done" /\ calls[c].selectErr
FailedInsert(c) == calls[c].pc = "done" /\ calls[c].kind = "add" /\ calls[c].insertErr

\* C7: a failed select makes the list return an empty sequence without
\* raising; a failed insert makes the create return an empty sequence without
\* raising and without a re-fetch, and leaves the stored rows unchanged.
C7_SilentDegradation ==
    [][\A c \in CallIds :
          /\ FailedSelect(c)' =>
                (calls'[c].result = <<>> /\ calls'[c].outcome = "returned")
          /\ FailedInsert(c)' =>
                /\ calls'[c].result = <<>> /\ calls'[c].outcome = "returned"
                /\ calls'[c].selects = 0
          /\ (calls[c].pc = "i_sent" /\ calls'[c].insertErr)
                => completed_services' = completed_services]_vars

\* C7 witness: one call ended on a failed select and another on a failed
\* insert, with rows in the store.
C7_Witness ==
    \E c, d \in CallIds :
        /\ FailedSelect(c) /\ FailedInsert(d)
        /\ calls[c].result = <<>> /\ calls[d].result = <<>>
        /\ completed_services # <<>>


(***************************************************************************)
(* Properties of the mechanic form                                         *)
(***************************************************************************)
\* C5: a submit with an empty name does not invoke onSubmit, sets the
\* validation message of the name field, requests no close of the dialog and
\* does not reset the entered fields.
C5_EmptyNameRejected ==
    [][(Submit /\ fields.name = "")
          => /\ onSubmitCalls' = onSubmitCalls
             /\ errors' = RequiredMessage
             /\ closeRequested' = closeRequested
             /\ fields' = fields
             /\ open' = open]_vars

\* C5 witness: the dialog is open, other fields are filled in, the name is
\* empty, the validation message is shown and nothing was submitted or closed.
C5_Witness ==
    /\ open /\ fields.name = "" /\ fields.specialization # ""
    /\ errors = RequiredMessage
    /\ onSubmitCalls = <<>>
    /\ ~closeRequested

====
